---------------------------- MODULE Spec2Model ----------------------------
(***************************************************************************)
(* Genyx AI (genyx_final.py): the inference request/response lifecycle and *)
(* the local persistence layer.                                            *)
(*                                                                         *)
(* Modelled: BrainHistory (_load, _create_default, save, add_interaction,  *)
(* get_stats, increment_session), LearningLogger (log, log_event),         *)
(* QwenClient (__init__, generate), GenyxAI (__init__, generate_prompt,    *)
(* create_mindmap, show_stats, run) and main.                              *)
(*                                                                         *)
(* Abstractions: a string is a run of one character class with a length    *)
(* (so strip, truthiness and slicing are computed); a timestamp is a tick  *)
(* of a logical clock; the history file is absent, not loadable, or holds  *)
(* a JSON document; a swallowed failure of a history write is an input of   *)
(* the step that writes, and whether the event log can be written is a     *)
(* condition of the environment.  Banner, menu and colour output are left  *)
(* out.                                                                    *)
(***************************************************************************)
EXTENDS Integers, Sequences, FiniteSets, TLC

VARIABLES
    file,          \* contents of brain_history.json
    log,           \* contents of learning_log.txt, a sequence of entries
    token,         \* whether HF_TOKEN is set in the environment
    logWritable,   \* whether learning_log.txt can be opened for appending
    data,          \* BrainHistory.data of the running process
    pc,            \* position of the process
    clock,         \* datetime.datetime.now()
    task,          \* locals of the running task: type, topic, result
    steps,         \* what the task of this iteration has done so far, in order
    snap,          \* data, file, log and calls when the running task began
    calls,         \* invocations of QwenClient.generate in this process
    sessionCalls,  \* invocations of increment_session in this process
    startLogged,   \* log_event("SYSTEM_START") has run in this process
    inLoop,        \* run() has reached its while loop in this process
    exitCode,      \* exit status of the process once pc = "exited"
    lastSave,      \* outcome of the last BrainHistory.save of this process
    runs,          \* processes started so far
    tasks,         \* tasks started so far
    added,         \* every record add_interaction has appended, in order
    script         \* the interaction types a scripted caller passes, cyclically

vars == <<file, log, token, logWritable, data, pc, clock, task, steps, snap,
          calls, sessionCalls, startLogged, inLoop, exitCode, lastSave, runs,
          tasks, added, script>>

---------------------------------------------------------------------------
(* Bounds of the model *)

MaxRuns == 2

MaxTasks == 1

MaxAdds == 102

MaxScript == 2

(* Program constants *)

MaxInteractions == 100

PromptChars == 200

ResponseChars == 500

---------------------------------------------------------------------------
(* Python values: None, a str (a run of n characters of class ch) and an   *)
(* int.                                                                    *)

PyNone == [t |-> "none", ch |-> "", n |-> 0]

PyStr(c, k) == [t |-> "str", ch |-> IF k = 0 THEN "" ELSE c, n |-> k]

PyInt(k) == [t |-> "int", ch |-> "", n |-> k]

Min(a, b) == IF a < b THEN a ELSE b

\* bool(v): None, "" and 0 are false
Truthy(v) == v.t # "none" /\ v.n # 0

\* v[:k] is defined for a str and raises TypeError for an int
Sliceable(v) == v.t = "str"

Slice(v, k) == [v EXCEPT !.n = Min(@, k)]

\* str.strip(): a string of whitespace becomes ""
Strip(v) == IF v.ch = " " THEN PyStr("", 0) ELSE v

Has(d, k) == k \in DOMAIN d

LastN(s, k) == IF Len(s) > k THEN SubSeq(s, Len(s) - k + 1, Len(s)) ELSE s

---------------------------------------------------------------------------
(* BrainHistory *)

_create_default(now) ==
    [metadata   |-> [created_at |-> now,
                     version |-> "2.0.0",
                     model |-> "Qwen/Qwen2.5-7B-Instruct",
                     total_interactions |-> 0],
     statistics |-> [prompts_generated |-> 0,
                     mindmaps_created |-> 0,
                     sessions |-> 0],
     interactions |-> << >>]

\* _load: the parsed file when it exists and json.load succeeds, whatever
\* its shape; the default document otherwise
LoadUsesDefault(f) == f.kind # "json"

_load(f, now) == IF f.kind = "json" THEN f.doc ELSE _create_default(now)

\* save: json.dump into open(filepath, 'w'); any exception is swallowed.
\* outcome "ok": the file holds the document; "open_fails": open raised and
\* the file is as before; "write_fails": open truncated the file and the
\* dump raised, leaving text that is not a JSON document.
SaveOutcomes == {"ok", "open_fails", "write_fails"}

\* a save that opens the file with mode 'a': a second document follows the
\* first, and the file is no JSON document any more
save_AppendMode(d, f, outcome) ==
    CASE outcome = "ok"          -> IF f.kind = "absent"
                                    THEN [kind |-> "json", doc |-> d]
                                    ELSE [kind |-> "invalid"]
      [] outcome = "open_fails"  -> f
      [] outcome = "write_fails" -> [kind |-> "invalid"]

save(d, f, outcome) ==
    CASE outcome = "ok"          -> [kind |-> "json", doc |-> d]
      [] outcome = "open_fails"  -> f
      [] outcome = "write_fails" -> [kind |-> "invalid"]

InteractionRecord(now, type, prompt, response) ==
    [timestamp |-> now,
     type      |-> type,
     prompt    |-> Slice(prompt, PromptChars),
     response  |-> Slice(response, ResponseChars)]

\* a cap that keeps the oldest records instead of the newest
Cap_KeepsOldest(list) ==
    IF Len(list) > MaxInteractions THEN SubSeq(list, 1, MaxInteractions)
    ELSE list

\* the retention cap of add_interaction
Cap(list) ==
    IF Len(list) > MaxInteractions THEN LastN(list, MaxInteractions) ELSE list

\* the counter updates of add_interaction on a document that has them
CountInteraction(d, type) ==
    LET d1 == [d EXCEPT !.metadata.total_interactions = @ + 1]
    IN  IF type = "prompt"
        THEN [d1 EXCEPT !.statistics.prompts_generated = @ + 1]
        ELSE IF type = "mindmap"
        THEN [d1 EXCEPT !.statistics.mindmaps_created = @ + 1]
        ELSE d1

\* add_interaction up to its save: the document it leaves in memory and
\* whether it raised (KeyError on a missing key, TypeError on response[:500])
add_interaction(d, now, type, prompt, response) ==
    IF ~Has(d, "interactions") \/ ~Sliceable(response)
    THEN [raised |-> TRUE, data |-> d]
    ELSE LET d1 == [d EXCEPT !.interactions =
                        Append(@, InteractionRecord(now, type, prompt, response))]
         IN  IF ~Has(d1, "metadata")
             THEN [raised |-> TRUE, data |-> d1]
             ELSE IF ~Has(d1, "statistics")
             THEN [raised |-> TRUE,
                   data |-> [d1 EXCEPT !.metadata.total_interactions = @ + 1]]
             ELSE LET d2 == CountInteraction(d1, type)
                  IN  [raised |-> FALSE,
                       data |-> [d2 EXCEPT !.interactions = Cap(@)]]

StatsDefined(d) == Has(d, "metadata") /\ Has(d, "statistics")

get_stats(d) ==
    [total    |-> d.metadata.total_interactions,
     prompts  |-> d.statistics.prompts_generated,
     mindmaps |-> d.statistics.mindmaps_created,
     sessions |-> d.statistics.sessions]

\* a session start that replaces the statistics by fresh ones
increment_session_Resets(d) ==
    IF ~Has(d, "statistics")
    THEN [raised |-> TRUE, data |-> d]
    ELSE [raised |-> FALSE,
          data |-> [d EXCEPT !.statistics =
                        [prompts_generated |-> 0, mindmaps_created |-> 0,
                         sessions |-> @.sessions + 1]]]

\* increment_session up to its save; it raises when "statistics" is missing
increment_session(d) ==
    IF ~Has(d, "statistics")
    THEN [raised |-> TRUE, data |-> d]
    ELSE [raised |-> FALSE, data |-> [d EXCEPT !.statistics.sessions = @ + 1]]

---------------------------------------------------------------------------
(* LearningLogger: an entry is a transcript block or a SYSTEM line *)

Transcript(now, type, input, output) ==
    [kind |-> "transcript", ts |-> now, name |-> type,
     input |-> input, output |-> output]

Event(now, event) ==
    [kind |-> "event", ts |-> now, name |-> event,
     input |-> PyNone, output |-> PyNone]

\* open(filepath, 'a') and write; any exception is swallowed.  Whether the
\* file can be written is a condition of the process's environment
AppendLog(l, entry, ok) == IF ok THEN Append(l, entry) ELSE l

---------------------------------------------------------------------------
(* QwenClient.generate *)

\* what requests.post does: it raises requests.Timeout, raises another
\* exception, or returns a response with a status code and a body
Http(status, body) == [kind |-> "http", status |-> status, body |-> body]

\* a body: text that is no JSON, a list (empty, or with a first element),
\* an object, or a scalar; the first element or the object either is a dict
\* with "generated_text" = gt, a dict without that key, or not a dict
Body(shape, item, gt) == [shape |-> shape, item |-> item, gt |-> gt]

GeneratedTexts ==
    {PyStr("g", ResponseChars + 1), PyStr("", 0), PyInt(5), PyInt(0), PyNone}

Bodies ==
    {Body("notjson", "none", PyNone),
     Body("emptylist", "none", PyNone),
     Body("scalar", "none", PyNone),
     Body("list", "nokey", PyNone),
     Body("list", "notdict", PyNone),
     Body("dict", "nokey", PyNone)}
    \cup {Body("list", "dict", g) : g \in GeneratedTexts}
    \cup {Body("dict", "dict", g) : g \in GeneratedTexts}

Responses ==
    {[kind |-> "timeout"], [kind |-> "error"]}
    \cup {Http(s, Body("notjson", "none", PyNone)) : s \in {503, 401, 429, 500}}
    \cup {Http(200, b) : b \in Bodies}

\* the text taken from a parsed 200 body, and whether taking it raised
ExtractText(body) ==
    IF body.shape = "list"
    THEN IF body.item = "notdict"
         THEN [raised |-> TRUE, text |-> PyNone]
         ELSE [raised |-> FALSE,
               text |-> IF body.item = "dict" THEN body.gt ELSE PyStr("", 0)]
    ELSE IF body.shape = "dict"
    THEN [raised |-> FALSE,
          text |-> IF body.item = "dict" THEN body.gt ELSE PyStr("", 0)]
    ELSE [raised |-> FALSE, text |-> PyStr("r", 2)]

generate(resp) ==
    IF resp.kind # "http"
    THEN PyNone
    ELSE IF resp.status = 200
    THEN IF resp.body.shape = "notjson"
         THEN PyNone
         ELSE LET x == ExtractText(resp.body)
              IN  IF x.raised THEN PyNone
                  ELSE IF Truthy(x.text) THEN x.text ELSE PyNone
    ELSE PyNone

---------------------------------------------------------------------------
(* The files a process may find at startup *)

\* a document an earlier process saved after k prompt interactions
OldRecord(i, k) ==
    [timestamp |-> i - k, type |-> "prompt",
     prompt |-> PyStr("t", 3), response |-> PyStr("g", 5)]

OldDoc(k) ==
    [metadata   |-> [created_at |-> 0 - k,
                     version |-> "2.0.0",
                     model |-> "Qwen/Qwen2.5-7B-Instruct",
                     total_interactions |-> k],
     statistics |-> [prompts_generated |-> k,
                     mindmaps_created |-> 0,
                     sessions |-> 1],
     interactions |-> [i \in 1..k |-> OldRecord(i, k)]]

\* valid JSON of another shape: an object with none of the expected keys,
\* one without "interactions", one without "metadata"
OtherDoc == [other |-> 0]

NoInteractionsDoc == [metadata |-> OldDoc(0).metadata,
                      statistics |-> OldDoc(0).statistics]

NoMetadataDoc == [statistics |-> OldDoc(0).statistics,
                  interactions |-> << >>]

JsonFile(d) == [kind |-> "json", doc |-> d]

Files ==
    {[kind |-> "absent"], [kind |-> "invalid"]}
    \cup {JsonFile(d) : d \in {OtherDoc, NoInteractionsDoc, NoMetadataDoc,
                               OldDoc(0), OldDoc(MaxInteractions + 1)}}

\* what the user types at a topic prompt
Topics == {PyStr("", 0), PyStr(" ", 3), PyStr("t", PromptChars + 1)}

NoData == [unloaded |-> TRUE]

NoTask == [type |-> "none", topic |-> PyNone, result |-> PyNone]

NoSnap == [data |-> NoData, file |-> [kind |-> "absent"], log |-> << >>,
           calls |-> 0]

\* the type each task passes to LearningLogger.log
LogType(type) == IF type = "prompt" THEN "prompt_generation"
                 ELSE "mindmap_creation"

---------------------------------------------------------------------------
(* The process: main, GenyxAI.__init__, GenyxAI.run *)

Init ==
    /\ file \in Files
    /\ token \in BOOLEAN
    /\ logWritable \in BOOLEAN
    /\ log = << >>
    /\ data = NoData
    /\ pc = "boot"
    /\ clock = 1
    /\ task = NoTask
    /\ steps = << >>
    /\ snap = NoSnap
    /\ calls = 0
    /\ sessionCalls = 0
    /\ startLogged = FALSE
    /\ inLoop = FALSE
    /\ exitCode = 0
    /\ lastSave = "none"
    /\ runs = 1
    /\ tasks = 0
    /\ added = << >>
    /\ script = << >>

\* self.brain = BrainHistory(); self.logger = LearningLogger()
LoadHistory ==
    /\ pc = "boot"
    /\ data' = _load(file, clock)
    /\ clock' = IF LoadUsesDefault(file) THEN clock + 1 ELSE clock
    /\ pc' = "client"
    /\ UNCHANGED <<file, log, token, logWritable, task, steps, snap, calls,
                   sessionCalls, startLogged, inLoop, exitCode, lastSave,
                   runs, tasks, added, script>>

\* a constructor that does not check the token
AfterClientInit_NoCheck(tk) == "session"

\* self.client = QwenClient(): sys.exit(1) without HF_TOKEN
AfterClientInit(tk) == IF tk THEN "session" ELSE "exited"

ClientInit ==
    /\ pc = "client"
    /\ pc' = AfterClientInit(token)
    /\ exitCode' = IF token THEN exitCode ELSE 1
    /\ UNCHANGED <<file, log, token, logWritable, data, clock, task, steps,
                   snap, calls, sessionCalls, startLogged, inLoop, lastSave,
                   runs, tasks, added, script>>

\* self.brain.increment_session(); an exception reaches main: "Fatal", exit 1
IncrementSession ==
    /\ pc = "session"
    /\ sessionCalls' = sessionCalls + 1
    /\ LET r == increment_session(data)
       IN  /\ data' = r.data
           /\ IF r.raised
              THEN /\ pc' = "exited"
                   /\ exitCode' = 1
                   /\ UNCHANGED <<file, lastSave>>
              ELSE /\ pc' = "logstart"
                   /\ \E o \in SaveOutcomes :
                          /\ file' = save(r.data, file, o)
                          /\ lastSave' = o
                   /\ UNCHANGED exitCode
    /\ UNCHANGED <<log, token, logWritable, clock, task, steps, snap, calls,
                   startLogged, inLoop, runs, tasks, added, script>>

\* self.logger.log_event("SYSTEM_START"), then run() enters its loop
LogStart ==
    /\ pc = "logstart"
    /\ log' = AppendLog(log, Event(clock, "SYSTEM_START"), logWritable)
    /\ clock' = clock + 1
    /\ startLogged' = TRUE
    /\ inLoop' = TRUE
    /\ pc' = "menu"
    /\ UNCHANGED <<file, token, logWritable, data, task, steps, snap, calls,
                   sessionCalls, exitCode, lastSave, runs, tasks, added,
                   script>>

\* stats = self.brain.get_stats() is outside the try of run(): a KeyError
\* reaches main: "Fatal", exit 1
MenuStatsFail ==
    /\ pc = "menu"
    /\ ~StatsDefined(data)
    /\ pc' = "exited"
    /\ exitCode' = 1
    /\ UNCHANGED <<file, log, token, logWritable, data, clock, task, steps,
                   snap, calls, sessionCalls, startLogged, inLoop, lastSave,
                   runs, tasks, added, script>>

\* choice '1' or '2': generate_prompt or create_mindmap begins
StartTask ==
    /\ pc = "menu"
    /\ StatsDefined(data)
    /\ tasks < MaxTasks
    /\ \E type \in {"prompt", "mindmap"} :
           task' = [type |-> type, topic |-> PyNone, result |-> PyNone]
    /\ tasks' = tasks + 1
    /\ steps' = << >>
    /\ snap' = [data |-> data, file |-> file, log |-> log, calls |-> calls]
    /\ pc' = "topic"
    /\ UNCHANGED <<file, log, token, logWritable, data, clock, calls,
                   sessionCalls, startLogged, inLoop, exitCode, lastSave,
                   runs, added, script>>

\* choice '3': show_stats reads data["interactions"]; a KeyError is caught
\* by run(), which prints it and loops without the Enter prompt
ShowStats ==
    /\ pc = "menu"
    /\ StatsDefined(data)
    /\ pc' = IF Has(data, "interactions") THEN "pause" ELSE "menu"
    /\ task' = NoTask
    /\ steps' = << >>
    /\ snap' = NoSnap
    /\ UNCHANGED <<file, log, token, logWritable, data, clock, calls,
                   sessionCalls, startLogged, inLoop, exitCode, lastSave,
                   runs, tasks, added, script>>

\* choice '4' (show_about) or a choice that is no option
ShowOther ==
    /\ pc = "menu"
    /\ StatsDefined(data)
    /\ pc' = "pause"
    /\ task' = NoTask
    /\ steps' = << >>
    /\ snap' = NoSnap
    /\ UNCHANGED <<file, log, token, logWritable, data, clock, calls,
                   sessionCalls, startLogged, inLoop, exitCode, lastSave,
                   runs, tasks, added, script>>

\* choice '0': log_event("SYSTEM_EXIT") and break
Quit ==
    /\ pc = "menu"
    /\ StatsDefined(data)
    /\ log' = AppendLog(log, Event(clock, "SYSTEM_EXIT"), logWritable)
    /\ clock' = clock + 1
    /\ pc' = "exited"
    /\ exitCode' = 0
    /\ task' = NoTask
    /\ steps' = << >>
    /\ snap' = NoSnap
    /\ UNCHANGED <<file, token, logWritable, data, calls, sessionCalls,
                   startLogged, inLoop, lastSave, runs, tasks, added, script>>

\* KeyboardInterrupt while the process blocks in input() or in the request:
\* log_event("INTERRUPT") and break
Interrupt ==
    /\ pc \in {"menu", "topic", "generate", "pause"}
    /\ pc = "menu" => StatsDefined(data)
    /\ log' = AppendLog(log, Event(clock, "INTERRUPT"), logWritable)
    /\ clock' = clock + 1
    /\ pc' = "exited"
    /\ exitCode' = 0
    /\ task' = NoTask
    /\ steps' = << >>
    /\ snap' = NoSnap
    /\ UNCHANGED <<file, token, logWritable, data, calls, sessionCalls,
                   startLogged, inLoop, lastSave, runs, tasks, added, script>>

\* input("Enter...") at the end of an iteration
PressEnter ==
    /\ pc = "pause"
    /\ pc' = "menu"
    /\ task' = NoTask
    /\ steps' = << >>
    /\ snap' = NoSnap
    /\ UNCHANGED <<file, log, token, logWritable, data, clock, calls,
                   sessionCalls, startLogged, inLoop, exitCode, lastSave,
                   runs, tasks, added, script>>

\* the user starts the program again, in the same environment
Restart ==
    /\ pc = "exited"
    /\ runs < MaxRuns
    /\ runs' = runs + 1
    /\ pc' = "boot"
    /\ calls' = 0
    /\ sessionCalls' = 0
    /\ startLogged' = FALSE
    /\ inLoop' = FALSE
    /\ exitCode' = 0
    /\ lastSave' = "none"
    /\ UNCHANGED <<file, log, token, logWritable, data, clock, task, steps,
                   snap, tasks, added, script>>

---------------------------------------------------------------------------
(* A task: GenyxAI.generate_prompt and GenyxAI.create_mindmap, which differ *)
(* in the template, the type they record and the type they log             *)

\* BrainHistory.add_interaction as a step: the record is built (reading the
\* clock), appended and counted, the list is capped and the document saved;
\* an exception leaves what was done before it and skips the save
BrainAdd(type, prompt, response, outcomes) ==
    LET r == add_interaction(data, clock, type, prompt, response)
    IN  /\ data' = r.data
        /\ clock' = IF Has(data, "interactions") THEN clock + 1 ELSE clock
        /\ added' = IF Has(data, "interactions") /\ Sliceable(response)
                    THEN Append(added,
                                InteractionRecord(clock, type, prompt, response))
                    ELSE added
        /\ IF r.raised
           THEN UNCHANGED <<file, lastSave>>
           ELSE \E o \in outcomes :
                    /\ file' = save(r.data, file, o)
                    /\ lastSave' = o

\* a task that prints "Vazio" and goes on to the request
AfterTopic_NoReturn(topic) == "generate"

\* topic = input(...).strip(); "if not topic" prints "Vazio" and returns
AfterTopic(topic) == IF Truthy(topic) THEN "generate" ELSE "pause"

ReadTopic ==
    /\ pc = "topic"
    /\ \E raw \in Topics :
           LET topic == Strip(raw)
           IN  /\ task' = [task EXCEPT !.topic = topic]
               /\ pc' = AfterTopic(topic)
               /\ steps' = IF Truthy(topic) THEN steps
                           ELSE Append(steps, "rejected")
    /\ UNCHANGED <<file, log, token, logWritable, data, clock, snap, calls,
                   sessionCalls, startLogged, inLoop, exitCode, lastSave,
                   runs, tasks, added, script>>

\* result = self.client.generate(template, ...); "if result" is false for
\* None: "Falha"
AfterGenerate(result) == IF Truthy(result) THEN "show" ELSE "pause"

Generate ==
    /\ pc = "generate"
    /\ calls' = calls + 1
    /\ \E resp \in Responses :
           LET result == generate(resp)
           IN  /\ task' = [task EXCEPT !.result = result]
               /\ pc' = AfterGenerate(result)
               /\ steps' = IF Truthy(result) THEN Append(steps, "generate")
                           ELSE steps \o <<"generate", "failed">>
    /\ UNCHANGED <<file, log, token, logWritable, data, clock, snap,
                   sessionCalls, startLogged, inLoop, exitCode, lastSave,
                   runs, tasks, added, script>>

\* a task that prints the result and the confirmation without the commits
ShowResult_SkipsCommit ==
    /\ pc = "show"
    /\ steps' = Append(steps, "show")
    /\ pc' = "confirm"
    /\ UNCHANGED <<file, log, token, logWritable, data, clock, task, snap,
                   calls, sessionCalls, startLogged, inLoop, exitCode,
                   lastSave, runs, tasks, added, script>>

\* print(result)
ShowResult ==
    /\ pc = "show"
    /\ steps' = Append(steps, "show")
    /\ pc' = "add"
    /\ UNCHANGED <<file, log, token, logWritable, data, clock, task, snap,
                   calls, sessionCalls, startLogged, inLoop, exitCode,
                   lastSave, runs, tasks, added, script>>

\* self.brain.add_interaction(type, topic, result); an exception is caught
\* by run(), which prints it and loops without the Enter prompt
AddInteraction ==
    /\ pc = "add"
    /\ BrainAdd(task.type, task.topic, task.result, SaveOutcomes)
    /\ IF add_interaction(data, clock, task.type, task.topic, task.result).raised
       THEN /\ steps' = Append(steps, "error")
            /\ pc' = "menu"
       ELSE /\ steps' = Append(steps, "add_interaction")
            /\ pc' = "log"
    /\ UNCHANGED <<log, token, logWritable, task, snap, calls, sessionCalls,
                   startLogged, inLoop, exitCode, runs, tasks, script>>

\* self.logger.log(log type, topic, result)
LogInteraction ==
    /\ pc = "log"
    /\ log' = AppendLog(log, Transcript(clock, LogType(task.type),
                                        task.topic, task.result), logWritable)
    /\ clock' = clock + 1
    /\ steps' = Append(steps, "log")
    /\ pc' = "confirm"
    /\ UNCHANGED <<file, token, logWritable, data, task, snap, calls,
                   sessionCalls, startLogged, inLoop, exitCode, lastSave,
                   runs, tasks, added, script>>

\* print("Salvo")
ShowSaved ==
    /\ pc = "confirm"
    /\ steps' = Append(steps, "saved")
    /\ pc' = "pause"
    /\ UNCHANGED <<file, log, token, logWritable, data, clock, task, snap,
                   calls, sessionCalls, startLogged, inLoop, exitCode,
                   lastSave, runs, tasks, added, script>>

Next ==
    \/ LoadHistory
    \/ ClientInit
    \/ IncrementSession
    \/ LogStart
    \/ MenuStatsFail
    \/ StartTask
    \/ ShowStats
    \/ ShowOther
    \/ Quit
    \/ Interrupt
    \/ PressEnter
    \/ Restart
    \/ ReadTopic
    \/ Generate
    \/ ShowResult
    \/ AddInteraction
    \/ LogInteraction
    \/ ShowSaved

Spec == Init /\ [][Next]_vars

---------------------------------------------------------------------------
(* add_interaction called repeatedly on a fresh default document by a      *)
(* caller that passes the types of a script, cyclically                    *)

Scripts ==
    UNION {[1..k -> {"prompt", "mindmap"}] : k \in 1..MaxScript}

InitCap ==
    /\ script \in Scripts
    /\ file = [kind |-> "absent"]
    /\ token = TRUE
    /\ logWritable = TRUE
    /\ log = << >>
    /\ data = _load([kind |-> "absent"], 0)
    /\ pc = "scripted"
    /\ clock = 1
    /\ task = NoTask
    /\ steps = << >>
    /\ snap = NoSnap
    /\ calls = 0
    /\ sessionCalls = 0
    /\ startLogged = FALSE
    /\ inLoop = FALSE
    /\ exitCode = 0
    /\ lastSave = "none"
    /\ runs = 1
    /\ tasks = 0
    /\ added = << >>

ScriptedAdd ==
    /\ pc = "scripted"
    /\ Len(added) < MaxAdds
    /\ BrainAdd(script[(Len(added) % Len(script)) + 1],
                PyStr("t", PromptChars + 1), PyStr("g", ResponseChars + 1),
                {"ok", "write_fails"})
    /\ UNCHANGED <<log, token, logWritable, pc, task, steps, snap, calls,
                   sessionCalls, startLogged, inLoop, exitCode, runs, tasks,
                   script>>

NextCap == ScriptedAdd

SpecCap == InitCap /\ [][NextCap]_vars

---------------------------------------------------------------------------
(* Properties *)

InSteps(e) == \E i \in 1..Len(steps) : steps[i] = e

\* the history document holds, last, the record of the running task, and
\* its all-time counter has grown by one since the task began
RecordCommitted ==
    /\ Has(data, "interactions")
    /\ Len(data.interactions) > 0
    /\ LET r == data.interactions[Len(data.interactions)]
       IN  /\ r.type = task.type
           /\ r.prompt = Slice(task.topic, PromptChars)
           /\ r.response = Slice(task.result, ResponseChars)
    /\ get_stats(data).total = get_stats(snap.data).total + 1

\* the event log holds, last, the transcript of the running task
TranscriptLogged ==
    /\ Len(log) = Len(snap.log) + 1
    /\ LET e == log[Len(log)]
       IN  /\ e.kind = "transcript"
           /\ e.name = LogType(task.type)
           /\ e.input = task.topic
           /\ e.output = task.result

\* nothing persistent has changed since the task began
NothingChanged ==
    /\ data = snap.data
    /\ file = snap.file
    /\ log = snap.log

C2_OneRecordThenOneTranscript ==
    (pc \in {"pause", "menu"} /\ InSteps("generate") /\ Truthy(task.result)) =>
        /\ InSteps("add_interaction") /\ InSteps("log")
        /\ RecordCommitted
        /\ get_stats(data).prompts + get_stats(data).mindmaps
               = get_stats(snap.data).prompts + get_stats(snap.data).mindmaps + 1
        /\ logWritable => TranscriptLogged

\* C3: a task given an empty or whitespace-only topic never calls generate,
\* and a task that was rejected or whose generate call returned None leaves
\* the history document, the history file and the event log as they were.
C3_RejectedOrFailedChangesNothing ==
    /\ InSteps("rejected") => calls = snap.calls /\ NothingChanged
    /\ InSteps("failed") => calls = snap.calls + 1 /\ NothingChanged

C3_Witness ==
    /\ pc = "pause"
    /\ steps = <<"generate", "failed">>
    /\ Len(snap.log) > 0
    /\ file.kind = "json"

\* C4: the interactions list never holds more than 100 records, in memory
\* and in the file the program has written, whatever the file held at first.
C4_AtMost100 ==
    /\ Has(data, "interactions") => Len(data.interactions) <= MaxInteractions
    /\ (lastSave = "ok" /\ Has(file.doc, "interactions")) =>
           Len(file.doc.interactions) <= MaxInteractions

\* C5: after N calls of add_interaction on a fresh default document the
\* counters tell N, and from N = 101 on the list holds exactly the 100
\* records added last, in the order they were added.
C5_CapKeepsNewest ==
    LET N == Len(added)
        list == data.interactions
        OfType(t) == Cardinality({i \in 1..N : added[i].type = t})
    IN  /\ get_stats(data).total = N
        /\ get_stats(data).prompts = OfType("prompt")
        /\ get_stats(data).mindmaps = OfType("mindmap")
        /\ N <= MaxInteractions => list = added
        /\ N >= MaxInteractions + 1 =>
               /\ Len(list) = MaxInteractions
               /\ \A i \in 1..MaxInteractions :
                      list[i] = added[N - MaxInteractions + i]

C5_Witness ==
    /\ Len(added) >= MaxInteractions + 1
    /\ get_stats(data).prompts > 0
    /\ get_stats(data).mindmaps > 0

\* C6: generate returns a non-empty string or None, whatever the response.
C6_StringOrNone ==
    InSteps("generate") =>
        \/ task.result = PyNone
        \/ task.result.t = "str" /\ task.result.n > 0

\* C7: with the token present, startup reaches the loop of run() whatever
\* the history file holds: a process that ends before the loop has no token.
C7_OnlyMissingTokenStopsStartup ==
    (pc = "exited" /\ ~inLoop) => ~token

\* C8: without the token the process exits with status 1 before any
\* generate call; with it, increment_session runs once, before the
\* SYSTEM_START event is logged, and both come before the first generate call.
C8_StartupOrder ==
    /\ ~token => /\ calls = 0
                 /\ pc \in {"boot", "client", "exited"}
                 /\ pc = "exited" => exitCode = 1
                 /\ sessionCalls = 0
    /\ sessionCalls <= 1
    /\ startLogged => sessionCalls = 1
    /\ inLoop => startLogged
    /\ (calls > 0 \/ pc = "generate") => startLogged /\ sessionCalls = 1

C8_Witness ==
    /\ token
    /\ calls > 0
    /\ runs > 1

StatsNotLess(d, e) ==
    /\ get_stats(e).total >= get_stats(d).total
    /\ get_stats(e).prompts >= get_stats(d).prompts
    /\ get_stats(e).mindmaps >= get_stats(d).mindmaps
    /\ get_stats(e).sessions >= get_stats(d).sessions

\* C9 as stated: the values get_stats reports never decrease, the reload
\* of a restarted process included.
C9_Original ==
    [][(StatsDefined(data) /\ StatsDefined(data')) => StatsNotLess(data, data')]_vars

\* C9 as amended: within one process the values get_stats reports never
\* decrease; the reload of a restarted process may yield lower ones.
C9_MonotonicWithinProcess ==
    [][(pc # "boot" /\ StatsDefined(data) /\ StatsDefined(data'))
           => StatsNotLess(data, data')]_vars

C9_Witness ==
    /\ InSteps("add_interaction")
    /\ get_stats(data).sessions >= 2
    /\ get_stats(data).total > get_stats(snap.data).total

===========================================================================
